---- MODULE Spec2Model ----
(***************************************************************************)
(* FilmFusion: LetterboxdScraper (src/main.py) with its DatabaseManager    *)
(* collaborator (src/database.py).                                         *)
(*                                                                         *)
(* One behaviour is one call compare_watchlists(username1, username2, cb)  *)
(* on a freshly constructed scraper.  The remote site and the database     *)
(* are the environment: every session.get draws its response, and every    *)
(* persistence call may raise.                                             *)
(***************************************************************************)
EXTENDS Integers, Sequences, FiniteSets, TLC

(* ----------------------------- bounds ---------------------------------- *)
MaxPage == 2        \* largest page number a pagination label may carry
MaxLen == 2         \* entries the site serves for one watchlist
MaxLinks == 2       \* links inside one pagination control

(* ----------------------------- inputs ---------------------------------- *)
Usernames == {"alice", "bob"}
Titles == {"Arrival", "Dune"}

RECURSIVE SeqsUpTo(_, _)
\* all sequences over S of length 0..n
SeqsUpTo(S, n) ==
  IF n = 0 THEN { <<>> }
  ELSE LET R == SeqsUpTo(S, n - 1)
       IN R \cup { Append(r, x) : r \in { q \in R : Len(q) = n - 1 }, x \in S }

\* MovieInfo(title=..., genres=[]) : the scraper never fills genres
MovieInfo(t) == [title |-> t, genres |-> <<>>]

\* session.get: a response with a status code, or an exception out of the
\* transport (retry budget exhausted, timeout, connection error)
Responses ==
  { [raised |-> FALSE, status_code |-> 200],
    [raised |-> FALSE, status_code |-> 404],
    [raised |-> TRUE,  status_code |-> 0] }

(* --------------------------- arithmetic -------------------------------- *)
RECURSIVE GCD(_, _)
GCD(a, b) == IF b = 0 THEN a ELSE GCD(b, a % b)

\* the exact value n/d (d > 0), in lowest terms
Rat(n, d) == LET g == GCD(n, d) IN [num |-> n \div g, den |-> d \div g]

RatLess(x, y) == x.num * y.den < y.num * x.den

Min(a, b) == IF a <= b THEN a ELSE b

RECURSIVE SetMax(_)
SetMax(S) == LET x == CHOOSE y \in S : TRUE
             IN IF S = {x} THEN x
                ELSE LET m == SetMax(S \ {x}) IN IF x > m THEN x ELSE m

RECURSIVE SelectSeqBy(_, _)
\* [m for m in s if m.title in T]
SelectSeqBy(s, T) ==
  IF s = <<>> THEN <<>>
  ELSE IF Head(s).title \in T
       THEN <<Head(s)>> \o SelectSeqBy(Tail(s), T)
       ELSE SelectSeqBy(Tail(s), T)

TitleSet(s) == { s[i].title : i \in 1..Len(s) }

(* ------------------------- documents served ---------------------------- *)
\* a div.film-poster: its data-film-name attribute and the alt text of its
\* img.image child; "" stands for absent (None) as well as empty, both falsy
PosterPool ==
  { [film_name |-> t, alt |-> ""] : t \in Titles }
    \cup { [film_name |-> "", alt |-> "Dune"], [film_name |-> "", alt |-> ""],
           [film_name |-> "Arrival", alt |-> "Dune"] }

\* the grid container of a page: the first of these markers it matches
GridMarkers == { "ul.poster-list", "ul.films-grid", "div.films-grid", "none" }

\* where a div.film-poster sits: "item", the first poster of an
\* li.poster-container (inside the grid container when the page has one);
\* "bare", inside the grid container but not the first poster of an
\* li.poster-container; "outside", outside the grid container
Places == { "item", "bare", "outside" }

ElementPool == { [poster |-> p, place |-> pl] : p \in PosterPool, pl \in Places }

\* a document: its grid container (or none) and its div.film-poster
\* elements in document order
Documents(n) ==
  { [grid |-> g, elements |-> es] : g \in GridMarkers, es \in SeqsUpTo(ElementPool, n) }

InItems(posters) ==
  [ i \in 1..Len(posters) |-> [poster |-> posters[i], place |-> "item"] ]

\* a watchlist page as the site serves it: every poster in an
\* li.poster-container of its own
PageDocs(n) ==
  { [grid |-> g, elements |-> InItems(ps)] :
      g \in GridMarkers, ps \in SeqsUpTo(PosterPool, n) }

\* characters of a pagination link label
DigitSeq == <<"0", "1", "2", "3", "4", "5", "6", "7", "8", "9">>
DecimalChars == { DigitSeq[i] : i \in 1..10 }
DigitVal(c) == (CHOOSE i \in 1..10 : DigitSeq[i] = c) - 1

\* U+2026 HORIZONTAL ELLIPSIS and U+00B2 SUPERSCRIPT TWO, as one character each
Ellipsis == "U+2026"
SuperscriptTwo == "U+00B2"

PageDigits == { DigitSeq[i + 1] : i \in 0..MaxPage }
LabelPool ==
  { <<c>> : c \in PageDigits }
    \cup { <<"0", DigitSeq[MaxPage + 1]>>, <<Ellipsis>>, <<SuperscriptTwo>> }

NoPagination == [present |-> FALSE, links |-> <<>>]
\* the first page as far as get_user_watchlist reads it: div.pagination and
\* the text of each <a> inside it
InitialDocs ==
  { NoPagination } \cup { [present |-> TRUE, links |-> ls] : ls \in SeqsUpTo(LabelPool, MaxLinks) }

(* ---------------------- pure functions of main.py ---------------------- *)
\* str.isdigit(): non-empty and every character has the Unicode digit
\* property, which SUPERSCRIPT TWO has and the ellipsis has not
IsDigit(label) ==
  /\ Len(label) > 0
  /\ \A i \in 1..Len(label) : label[i] \in DecimalChars \cup { SuperscriptTwo }

\* int(text) accepts decimal digits only; anything else is a ValueError
IntRaises(label) ==
  \/ Len(label) = 0
  \/ \E i \in 1..Len(label) : label[i] \notin DecimalChars

RECURSIVE IntOf(_)
IntOf(label) ==
  IF Len(label) = 0 THEN 0
  ELSE 10 * IntOf(SubSeq(label, 1, Len(label) - 1)) + DigitVal(label[Len(label)])

\* max((int(a.text) for a in pagination.find_all('a') if a.text.isdigit()),
\*     default=1) if pagination else 1
\* -> [raised, value]; raised when int() rejects a label isdigit() let through
LastPage(page) ==
  IF ~page.present THEN [raised |-> FALSE, value |-> 1]
  ELSE LET picked == { i \in 1..Len(page.links) : IsDigit(page.links[i]) }
       IN IF \E i \in picked : IntRaises(page.links[i])
          THEN [raised |-> TRUE, value |-> 0]
          ELSE IF picked = {}
               THEN [raised |-> FALSE, value |-> 1]
               ELSE [raised |-> FALSE,
                     value |-> SetMax({ IntOf(page.links[i]) : i \in picked })]

\* _extract_movie_info: data-film-name, else the img's alt, else None
NoMovie == [title |-> "", genres |-> <<>>]
ExtractMovieInfo(film_poster) ==
  LET film_title == IF film_poster.film_name # "" THEN film_poster.film_name
                    ELSE film_poster.alt
  IN IF film_title # "" THEN MovieInfo(film_title) ELSE NoMovie

RECURSIVE ExtractUntilUnusable(_)
\* mutant: the first poster without a title ends the extraction
ExtractUntilUnusable(posters) ==
  IF posters = <<>> THEN <<>>
  ELSE LET movie == ExtractMovieInfo(Head(posters))
       IN IF movie # NoMovie THEN <<movie>> \o ExtractUntilUnusable(Tail(posters))
          ELSE <<>>

RECURSIVE ExtractAll(_)
\* movie = self._extract_movie_info(poster); if movie: movies.append(movie)
ExtractAll(posters) ==
  IF posters = <<>> THEN <<>>
  ELSE LET movie == ExtractMovieInfo(Head(posters))
       IN (IF movie # NoMovie THEN <<movie>> ELSE <<>>) \o ExtractAll(Tail(posters))

RECURSIVE PostersAt(_, _)
\* the posters of the elements placed in `places`, in document order
PostersAt(elements, places) ==
  IF elements = <<>> THEN <<>>
  ELSE (IF Head(elements).place \in places THEN << Head(elements).poster >> ELSE <<>>)
       \o PostersAt(Tail(elements), places)

\* _parse_movie_page: soup.find_all('div', 'film-poster') when no grid
\* container is found, else the first div.film-poster of each
\* li.poster-container inside the grid container
ParseMoviePage(soup) ==
  IF soup.grid = "none" THEN ExtractAll(PostersAt(soup.elements, Places))
  ELSE ExtractAll(PostersAt(soup.elements, { "item" }))

\* mutant: the zero-based page index is reported
ProgressValueZeroBased(page_num, last_page) == Rat(page_num * 100, last_page)

\* progress = (page_num + 1) / last_page * 100
ProgressValue(page_num, last_page) == Rat((page_num + 1) * 100, last_page)

\* mutant: the status of the profile response is not looked at
ProfileAlwaysFound(response) == TRUE

\* response.status_code != 200 raises in _check_user_profile
\* and in _fetch_watchlist_page
ProfileFound(response) == response.status_code = 200

\* mutant: the status of a page response is not looked at
PageAlwaysFetched(response) == TRUE

PageFetched(response) == response.status_code = 200

\* mutant: an empty list is let through
NeverNoMovies(user_watchlist) == FALSE

\* `if not user_watchlist: raise ValueError("No movies found ...")`
NoMoviesFound(user_watchlist) == user_watchlist = <<>>

\* `if not user1_watchlist: raise ValueError("Could not fetch watchlist ...")`
CouldNotFetch(watchlist) == watchlist = <<>>

\* mutant: the titles of the first list alone
CommonTitlesOfFirst(list1, list2) == TitleSet(list1)

\* common_titles = set(titles of list 1) & set(titles of list 2)
CommonTitles(list1, list2) == TitleSet(list1) \cap TitleSet(list2)

\* mutant: the comprehension walks the second list
CommonMoviesOfSecond(list1, list2) == SelectSeqBy(list2, CommonTitles(list1, list2))

RECURSIVE FirstOccurrences(_, _)
FirstOccurrences(s, seen) ==
  IF s = <<>> THEN <<>>
  ELSE IF Head(s).title \in seen THEN FirstOccurrences(Tail(s), seen)
       ELSE <<Head(s)>> \o FirstOccurrences(Tail(s), seen \cup { Head(s).title })

\* mutant: a repeated title is kept once
CommonMoviesOnce(list1, list2) ==
  FirstOccurrences(SelectSeqBy(list1, CommonTitles(list1, list2)), {})

\* [movie for movie in user1_watchlist if movie.title in common_titles]
CommonMovies(list1, list2) == SelectSeqBy(list1, CommonTitles(list1, list2))

\* mutant: the overlap is taken against the first list
StatisticsOverFirstList(self_common_movies, list1, list2) ==
  [ overlap_percentage |-> Rat(Len(self_common_movies) * 100, Len(list1)),
    total_unique_movies |-> Cardinality(TitleSet(list1 \o list2)) ]

\* mutant: the titles are counted without the set()
StatisticsCountingRepeats(self_common_movies, list1, list2) ==
  [ overlap_percentage |->
      Rat(Len(self_common_movies) * 100, Min(Len(list1), Len(list2))),
    total_unique_movies |-> Len(list1 \o list2) ]

\* _calculate_statistics, reading self.common_movies
CalculateStatistics(self_common_movies, list1, list2) ==
  [ overlap_percentage |->
      Rat(Len(self_common_movies) * 100, Min(Len(list1), Len(list2))),
    total_unique_movies |-> Cardinality(TitleSet(list1 \o list2)) ]

\* mutant: common_total counts the common titles, not the common entries
SuccessResultCountingTitles(self_common_movies, list1, list2) ==
  [ status |-> "success",
    common_movies |-> self_common_movies,
    user1_total |-> Len(list1),
    user2_total |-> Len(list2),
    common_total |-> Cardinality(TitleSet(self_common_movies)),
    statistics |->
      [ overlap_percentage |->
          Rat(Len(self_common_movies) * 100, Min(Len(list1), Len(list2))),
        total_unique_movies |-> Cardinality(TitleSet(list1 \o list2)) ] ]

\* the dictionary compare_watchlists returns on success
SuccessResult(self_common_movies, list1, list2) ==
  [ status |-> "success",
    common_movies |-> self_common_movies,
    user1_total |-> Len(list1),
    user2_total |-> Len(list2),
    common_total |-> Len(self_common_movies),
    statistics |-> CalculateStatistics(self_common_movies, list1, list2) ]

\* ... and in its except branch
ErrorResult ==
  [ status |-> "error", message |-> "user_not_found", common_movies |-> <<>> ]

NoResult == [ status |-> "none" ]

(* ---------------------- DatabaseManager (sqlite) ----------------------- *)
\* users and movies are AUTOINCREMENT tables: the id of a row is its index
EmptyDb ==
  [ users |-> <<>>, last_sync |-> {}, movies |-> <<>>,
    user_movies |-> <<>>, common_movies |-> <<>> ]

\* first index at which x occurs in s, 0 when absent (fetchone() / None)
IndexOf(s, x) ==
  IF \E i \in 1..Len(s) : s[i] = x
  THEN CHOOSE i \in 1..Len(s) : s[i] = x /\ \A j \in 1..(i - 1) : s[j] # x
  ELSE 0

\* get_user: the user's id, 0 for None
GetUser(d, username) == IndexOf(d.users, username)

\* add_user
AddUser(d, username) == [d EXCEPT !.users = Append(@, username)]

\* `user = get_user(u); if not user: user = add_user(u)`
EnsureUser(d, username) ==
  IF GetUser(d, username) = 0 THEN AddUser(d, username) ELSE d

\* add_movie: select by title, insert when there is no such row
AddMovie(d, title) ==
  IF IndexOf(d.movies, title) = 0 THEN [d EXCEPT !.movies = Append(@, title)] ELSE d

\* the INSERT INTO user_movies of add_user_movie, and its commit
InsertUserMovie(d, username, username2, title) ==
  [d EXCEPT !.user_movies =
     Append(@, <<GetUser(d, username), GetUser(d, username2), IndexOf(d.movies, title)>>)]

\* update_user_sync_time
UpdateUserSyncTime(d, username) ==
  IF GetUser(d, username) = 0 THEN d
  ELSE [d EXCEPT !.last_sync = @ \cup { username }]

DbStep(op, username, username2, title) ==
  [op |-> op, username |-> username, username2 |-> username2, title |-> title]

RECURSIVE AddUserMovieSteps(_, _, _)
\* for movie in movies: db.add_user_movie(username, username2, movie), each
\* call being four statements that commit on their own connections
AddUserMovieSteps(username, username2, movies) ==
  IF movies = <<>> THEN <<>>
  ELSE << DbStep("ensure_user", username, username2, ""),
          DbStep("ensure_user", username2, username, ""),
          DbStep("add_movie", username, username2, Head(movies).title),
          DbStep("insert_user_movie", username, username2, Head(movies).title) >>
       \o AddUserMovieSteps(username, username2, Tail(movies))

\* _update_database as the sequence of statements it commits
UpdateDatabaseSteps(username, username2, movies) ==
  << DbStep("ensure_user", username, username2, "") >>
    \o AddUserMovieSteps(username, username2, movies)
    \o << DbStep("sync", username, username2, "") >>

ApplyDbStep(d, st) ==
  CASE st.op = "ensure_user" -> EnsureUser(d, st.username)
    [] st.op = "add_movie" -> AddMovie(d, st.title)
    [] st.op = "insert_user_movie" -> InsertUserMovie(d, st.username, st.username2, st.title)
    [] st.op = "sync" -> UpdateUserSyncTime(d, st.username)

RECURSIVE ApplyDbSteps(_, _)
ApplyDbSteps(d, steps) ==
  IF steps = <<>> THEN d
  ELSE ApplyDbSteps(ApplyDbStep(d, Head(steps)), Tail(steps))

\* _update_database when its fail_at-th statement raises (0: none does):
\* the statements before it stay committed
UpdateDatabase(d, username, username2, movies, fail_at) ==
  LET steps == UpdateDatabaseSteps(username, username2, movies)
  IN IF fail_at = 0
     THEN [db |-> ApplyDbSteps(d, steps), raised |-> FALSE]
     ELSE [db |-> ApplyDbSteps(d, SubSeq(steps, 1, fail_at - 1)), raised |-> TRUE]

RECURSIVE CommonRows(_, _, _, _)
CommonRows(d, id1, id2, movies) ==
  IF movies = <<>> THEN <<>>
  ELSE << [user1_id |-> id1, user2_id |-> id2,
           movie_id |-> IndexOf(d.movies, Head(movies).title),
           movie_name |-> Head(movies).title] >>
       \o CommonRows(d, id1, id2, Tail(movies))

\* mutant: the DELETE matches the pair in the order given only
OtherPairsOneOrder(rows, id1, id2) ==
  SelectSeq(rows, LAMBDA r : ~(r.user1_id = id1 /\ r.user2_id = id2))

\* rows of common_movies that do not belong to the pair, in either order
OtherPairs(rows, id1, id2) ==
  SelectSeq(rows, LAMBDA r : ~( \/ (r.user1_id = id1 /\ r.user2_id = id2)
                               \/ (r.user1_id = id2 /\ r.user2_id = id1) ))

\* save_common_movies.  The DELETE and the INSERTs run on one connection and
\* commit together at the end; add_movie runs on a connection of its own, so
\* its INSERT of a missing title meets the write lock of the pending DELETE
\* and raises "database is locked".  fails: some statement raises.
SaveCommonMovies(d, username1, username2, movies, fails) ==
  LET id1 == GetUser(d, username1)
      id2 == GetUser(d, username2)
  IN IF fails THEN [db |-> d, raised |-> TRUE, returned |-> FALSE]
     ELSE IF id1 = 0 \/ id2 = 0 THEN [db |-> d, raised |-> FALSE, returned |-> FALSE]
     ELSE IF \E i \in 1..Len(movies) : IndexOf(d.movies, movies[i].title) = 0
          THEN [db |-> d, raised |-> TRUE, returned |-> FALSE]
          ELSE [db |-> [d EXCEPT !.common_movies =
                          OtherPairs(@, id1, id2) \o CommonRows(d, id1, id2, movies)],
                raised |-> FALSE, returned |-> TRUE]

(* ------------------------------ state ---------------------------------- *)
VARIABLES
  pc,               \* where the call to compare_watchlists stands
  username1,        \* arguments of compare_watchlists
  username2,
  progress_callback,\* TRUE when a callback was passed
  cur,              \* 1, 2: the get_user_watchlist call in progress
  requests,         \* session.get calls of the retrieval in progress, in order
  progress,         \* progress_callback invocations of that retrieval, in order
  initial_page,     \* locals of get_user_watchlist
  last_page,
  page_num,
  user_watchlist,
  user1_watchlist,  \* locals of compare_watchlists
  user2_watchlist,
  common_movies,    \* self.common_movies
  error_message,    \* self.error_message
  db,               \* the sqlite file behind self.db
  result,           \* what compare_watchlists returned
  transport,        \* one session.get inside the HTTPAdapter's retry loop
  threads,          \* comparison threads sharing one scraper (gui.py)
  parsing,          \* one document under _parse_movie_page
  dbcalls           \* per caller, the DatabaseManager call it is in or back from

\* the variables of one compare_watchlists call
call_vars ==
  << pc, username1, username2, progress_callback, cur, requests, progress,
     initial_page, last_page, page_num, user_watchlist, user1_watchlist,
     user2_watchlist, common_movies, error_message, db, result >>

\* the variables of the component specifications
part_vars == << transport, threads, parsing, dbcalls >>

vars == << call_vars, part_vars >>

\* values of the component variables while the component is not running
NoTransport == [state |-> "unused"]
NoThreads == <<>>
NoParsing == [state |-> "unused"]
NoDbCalls == <<>>

NoError == [username |-> "", cause |-> ""]

\* username / username2 of the get_user_watchlist call in progress
CurUser == IF cur = 1 THEN username1 ELSE username2
OtherUser == IF cur = 1 THEN username2 ELSE username1

\* LetterboxdScraper.__init__
Init ==
  /\ pc = "idle"
  /\ username1 = "" /\ username2 = ""
  /\ progress_callback = FALSE
  /\ cur = 0
  /\ requests = <<>> /\ progress = <<>>
  /\ initial_page = NoPagination
  /\ last_page = 0 /\ page_num = 0
  /\ user_watchlist = <<>>
  /\ user1_watchlist = <<>> /\ user2_watchlist = <<>>
  /\ common_movies = <<>>
  /\ error_message = NoError
  /\ db = EmptyDb
  /\ result = NoResult
  /\ transport = NoTransport
  /\ threads = NoThreads
  /\ parsing = NoParsing
  /\ dbcalls = NoDbCalls

\* one session.get of the retrieval in progress; movies: what was parsed
\* out of its answer and added to user_watchlist
Request(kind, page, response, movies) ==
  [kind |-> kind, username |-> CurUser, page |-> page, response |-> response,
   movies |-> movies]

\* mutant: the page URLs count from zero
PageUrlNumberZeroBased(n) == n

\* f'{watchlist_url}page/{page_num + 1}/'
PageUrlNumber(n) == n + 1

\* get_user_watchlist is left: its locals are gone
LocalsDropped ==
  /\ initial_page' = NoPagination
  /\ last_page' = 0
  /\ page_num' = 0
  /\ user_watchlist' = <<>>

\* the except branch of get_user_watchlist (error_message, return []) and
\* with it `raise ValueError("Could not fetch watchlist ...")` and the except
\* branch of compare_watchlists
RetrievalFails(cause) ==
  /\ error_message' = [username |-> CurUser, cause |-> cause]
  /\ LocalsDropped
  /\ IF cur = 1 THEN user1_watchlist' = <<>> /\ UNCHANGED user2_watchlist
                ELSE user2_watchlist' = <<>> /\ UNCHANGED user1_watchlist
  /\ result' = ErrorResult
  /\ pc' = "done"

\* the retrieval goes on to its next statement
RetrievalGoesTo(label) ==
  /\ pc' = label
  /\ UNCHANGED << error_message, result, user1_watchlist, user2_watchlist >>

\* compare_watchlists(username1, username2, progress_callback) is called
Call ==
  /\ pc = "idle"
  /\ UNCHANGED part_vars
  /\ \E u1 \in Usernames, u2 \in Usernames, cb \in BOOLEAN :
       /\ username1' = u1 /\ username2' = u2 /\ progress_callback' = cb
  /\ cur' = 1
  /\ pc' = "profile"
  /\ UNCHANGED << requests, progress, initial_page, last_page, page_num,
                  user_watchlist, user1_watchlist, user2_watchlist,
                  common_movies, error_message, db, result >>

\* _check_user_profile
CheckUserProfile ==
  /\ pc = "profile"
  /\ UNCHANGED part_vars
  /\ \E response \in Responses :
       /\ requests' = Append(requests, Request("profile", 0, response, <<>>))
       /\ IF response.raised
          THEN RetrievalFails("transport error")
          ELSE IF ~ProfileFound(response)
               THEN RetrievalFails("User profile not found")
               ELSE /\ RetrievalGoesTo("initial")
                    /\ UNCHANGED << initial_page, last_page, page_num, user_watchlist >>
  /\ UNCHANGED << username1, username2, progress_callback, cur, progress,
                  common_movies, db >>

\* initial_page = self._fetch_watchlist_page(watchlist_url)
FetchInitialPage ==
  /\ pc = "initial"
  /\ UNCHANGED part_vars
  /\ \E response \in Responses :
       /\ requests' = Append(requests, Request("watchlist", 0, response, <<>>))
       /\ IF response.raised
          THEN RetrievalFails("transport error")
          ELSE IF ~PageFetched(response)
               THEN RetrievalFails("Failed to fetch watchlist page")
               ELSE \E doc \in InitialDocs :
                    /\ initial_page' = doc
                    /\ RetrievalGoesTo("paginate")
                    /\ UNCHANGED << last_page, page_num, user_watchlist >>
  /\ UNCHANGED << username1, username2, progress_callback, cur, progress,
                  common_movies, db >>

\* "Determine total pages", then user_watchlist = [] and the loop is entered;
\* initial_page is not read again
DetermineTotalPages ==
  /\ pc = "paginate"
  /\ UNCHANGED part_vars
  /\ LET lp == LastPage(initial_page)
     IN IF lp.raised
        THEN RetrievalFails("invalid literal for int()")
        ELSE /\ last_page' = lp.value
             /\ page_num' = 0
             /\ user_watchlist' = <<>>
             /\ initial_page' = NoPagination
             /\ RetrievalGoesTo("loop")
  /\ UNCHANGED << username1, username2, progress_callback, cur, requests,
                  progress, common_movies, db >>

\* top of `for page_num in range(last_page)`: the progress callback
ReportProgress ==
  /\ pc = "loop"
  /\ UNCHANGED part_vars
  /\ page_num < last_page
  /\ progress' = IF progress_callback
                 THEN Append(progress, [percent |-> ProgressValue(page_num, last_page),
                                        username |-> CurUser])
                 ELSE progress
  /\ pc' = "fetch"
  /\ UNCHANGED << username1, username2, progress_callback, cur, requests,
                  initial_page, last_page, page_num, user_watchlist,
                  user1_watchlist, user2_watchlist, common_movies,
                  error_message, db, result >>

\* rest of the loop body: fetch page page_num + 1, parse it, extend
FetchPage ==
  /\ pc = "fetch"
  /\ UNCHANGED part_vars
  /\ \E response \in Responses :
       IF response.raised \/ ~PageFetched(response)
       THEN /\ requests' = Append(requests,
                   Request("page", PageUrlNumber(page_num), response, <<>>))
            /\ IF response.raised
               THEN RetrievalFails("transport error")
               ELSE RetrievalFails("Failed to fetch watchlist page")
       ELSE \E soup \in PageDocs(MaxLen - Len(user_watchlist)) :
            /\ requests' = Append(requests,
                   Request("page", PageUrlNumber(page_num), response,
                           ParseMoviePage(soup)))
            /\ user_watchlist' = user_watchlist \o ParseMoviePage(soup)
            /\ page_num' = page_num + 1
            /\ RetrievalGoesTo("loop")
            /\ UNCHANGED << initial_page, last_page >>
  /\ UNCHANGED << username1, username2, progress_callback, cur, progress,
                  common_movies, db >>

\* the loop is over: `if not user_watchlist: raise ValueError(...)`
CheckNoMovies ==
  /\ pc = "loop"
  /\ UNCHANGED part_vars
  /\ page_num >= last_page
  /\ IF NoMoviesFound(user_watchlist)
     THEN RetrievalFails("No movies found for user")
     ELSE /\ RetrievalGoesTo("update_db")
          /\ UNCHANGED << initial_page, last_page, page_num, user_watchlist >>
  /\ UNCHANGED << username1, username2, progress_callback, cur, requests,
                  progress, common_movies, db >>

\* self._update_database(...); return user_watchlist -- and, back in
\* compare_watchlists, the check of the returned list and the start of the
\* second retrieval
UpdateDatabaseAndReturn ==
  /\ pc = "update_db"
  /\ UNCHANGED part_vars
  /\ \E fail_at \in 0..Len(UpdateDatabaseSteps(CurUser, OtherUser, user_watchlist)) :
       LET out == UpdateDatabase(db, CurUser, OtherUser, user_watchlist, fail_at)
       IN /\ db' = out.db
          /\ IF out.raised
             THEN /\ RetrievalFails("database error")
                  /\ UNCHANGED << cur, requests, progress >>
             ELSE /\ UNCHANGED error_message
                  /\ LocalsDropped
                  /\ IF cur = 1
                     THEN user1_watchlist' = user_watchlist /\ UNCHANGED user2_watchlist
                     ELSE user2_watchlist' = user_watchlist /\ UNCHANGED user1_watchlist
                  /\ IF CouldNotFetch(user_watchlist)
                     THEN /\ result' = ErrorResult
                          /\ pc' = "done"
                          /\ UNCHANGED << cur, requests, progress >>
                     ELSE /\ UNCHANGED result
                          /\ requests' = <<>>
                          /\ progress' = <<>>
                          /\ IF cur = 1
                             THEN cur' = 2 /\ pc' = "profile"
                             ELSE UNCHANGED cur /\ pc' = "intersect"
  /\ UNCHANGED << username1, username2, progress_callback, common_movies >>

\* common_titles = ...; self.common_movies = [...]
Intersect ==
  /\ pc = "intersect"
  /\ UNCHANGED part_vars
  /\ common_movies' = CommonMovies(user1_watchlist, user2_watchlist)
  /\ pc' = "save"
  /\ UNCHANGED << username1, username2, progress_callback, cur, requests,
                  progress, initial_page, last_page, page_num, user_watchlist,
                  user1_watchlist, user2_watchlist, error_message, db, result >>

\* self.db.save_common_movies(...) and the return of the result dictionary
SaveAndReturn ==
  /\ pc = "save"
  /\ UNCHANGED part_vars
  /\ \E fails \in BOOLEAN :
       LET out == SaveCommonMovies(db, username1, username2, common_movies, fails)
       IN /\ db' = out.db
          /\ result' = IF out.raised THEN ErrorResult
                       ELSE SuccessResult(common_movies, user1_watchlist, user2_watchlist)
  /\ pc' = "done"
  /\ UNCHANGED << username1, username2, progress_callback, cur, requests,
                  progress, initial_page, last_page, page_num, user_watchlist,
                  user1_watchlist, user2_watchlist, common_movies, error_message >>

Next ==
  \/ Call
  \/ CheckUserProfile
  \/ FetchInitialPage
  \/ DetermineTotalPages
  \/ ReportProgress
  \/ FetchPage
  \/ CheckNoMovies
  \/ UpdateDatabaseAndReturn
  \/ Intersect
  \/ SaveAndReturn

Spec == Init /\ [][Next]_vars

(* ------------------- the transport of _create_session ------------------ *)
\* Retry(total=3, backoff_factor=1, status_forcelist=[429, 500, 502, 503, 504])
\* mounted on the session: urllib3 counts `total` as the retries allowed
\* after the first attempt; every retried failure takes one off, and the
\* request is given up (MaxRetryError, RetryError in requests) once the
\* count would go below zero.
RetryTotal == 3

\* mutant: 503 is left out of the list
StatusForcelistWithout503 == { 429, 500, 502, 504 }

StatusForcelist == { 429, 500, 502, 503, 504 }

\* what one attempt can meet: a status, or a timeout / connection error
\* the statuses a server answers with here
StatusCodes == { 200, 404, 429, 500, 502, 503, 504 }

AttemptOutcomes ==
  { [error |-> FALSE, status_code |-> c] : c \in StatusCodes }
    \cup { [error |-> TRUE, status_code |-> 0] }

\* Retry.is_retry for a GET, and the errors the adapter retries
IsRetry(outcome) == outcome.error \/ outcome.status_code \in StatusForcelist

\* Retry.is_exhausted
IsExhausted(total) == total < 0

\* self.session.get(...) is called
TransportSend ==
  /\ transport = NoTransport
  /\ transport' = [state |-> "sending", total |-> RetryTotal, attempts |-> <<>>]
  /\ UNCHANGED << call_vars, threads, parsing, dbcalls >>

\* one attempt on the wire and urlopen's decision on it (Retry.increment)
TransportAttempt ==
  /\ transport.state = "sending"
  /\ \E outcome \in AttemptOutcomes :
       LET sent == Append(transport.attempts, outcome)
       IN IF IsRetry(outcome)
          THEN IF IsExhausted(transport.total - 1)
               THEN transport' = [state |-> "raised", total |-> transport.total - 1,
                                  attempts |-> sent]
               ELSE transport' = [state |-> "sending", total |-> transport.total - 1,
                                  attempts |-> sent]
          ELSE transport' = [state |-> "returned", total |-> transport.total,
                             attempts |-> sent]
  /\ UNCHANGED << call_vars, threads, parsing, dbcalls >>

TransportNext == TransportSend \/ TransportAttempt

SpecTransport == Init /\ [][TransportNext]_vars

(* --------------- comparison threads on one LetterboxdScraper ----------- *)
\* gui.py starts a thread per comparison, every one calling compare_watchlists
\* on the same self.scraper.  The retrievals of a call work on locals; each
\* thread is taken up here where the pages of a retrieval have yielded a
\* non-empty list, at its _update_database, and is followed through the
\* assignment of self.common_movies and every later read of that attribute.  common_movies is the
\* attribute of the shared instance, db the shared database file.
ConcPairs == << <<"alice", "bob">>, <<"carol", "dave">> >>

ConcWatchlists ==
  { << MovieInfo("Arrival") >>,
    << MovieInfo("Dune") >>,
    << MovieInfo("Arrival"), MovieInfo("Dune") >>,
    << MovieInfo("Dune"), MovieInfo("Dune") >> }

Thread(t, list1, list2) ==
  [ pc |-> "update1",
    username1 |-> ConcPairs[t][1], username2 |-> ConcPairs[t][2],
    user1_watchlist |-> list1, user2_watchlist |-> list2,
    common_movies |-> <<>>, common_total |-> 0,
    result |-> NoResult ]

InitConc ==
  /\ pc = "idle"
  /\ username1 = "" /\ username2 = ""
  /\ progress_callback = FALSE
  /\ cur = 0
  /\ requests = <<>> /\ progress = <<>>
  /\ initial_page = NoPagination
  /\ last_page = 0 /\ page_num = 0
  /\ user_watchlist = <<>>
  /\ user1_watchlist = <<>> /\ user2_watchlist = <<>>
  /\ common_movies = <<>>
  /\ error_message = NoError
  /\ db = EmptyDb
  /\ result = NoResult
  /\ transport = NoTransport
  /\ parsing = NoParsing
  /\ dbcalls = NoDbCalls
  /\ \E a1 \in ConcWatchlists, a2 \in ConcWatchlists,
        b1 \in ConcWatchlists, b2 \in ConcWatchlists :
       threads = << Thread(1, a1, a2), Thread(2, b1, b2) >>

conc_unchanged ==
  << pc, username1, username2, progress_callback, cur, requests, progress,
     initial_page, last_page, page_num, user_watchlist, user1_watchlist,
     user2_watchlist, error_message, result, transport, parsing, dbcalls >>

\* self._update_database(...) at the end of the thread's first and second
\* get_user_watchlist; raises: its first statement does
ThreadUpdateDatabase(t) ==
  /\ threads[t].pc \in { "update1", "update2" }
  /\ \E raises \in BOOLEAN :
       LET th == threads[t]
           out == IF th.pc = "update1"
                  THEN UpdateDatabase(db, th.username1, th.username2, th.user1_watchlist,
                                      IF raises THEN 1 ELSE 0)
                  ELSE UpdateDatabase(db, th.username2, th.username1, th.user2_watchlist,
                                      IF raises THEN 1 ELSE 0)
       IN /\ db' = out.db
          /\ threads' = IF out.raised
                        THEN [threads EXCEPT ![t].pc = "done", ![t].result = ErrorResult]
                        ELSE [threads EXCEPT ![t].pc =
                                IF th.pc = "update1" THEN "update2" ELSE "assign"]
  /\ UNCHANGED << conc_unchanged, common_movies >>

\* self.common_movies = [movie for movie in user1_watchlist if ...]
ThreadAssign(t) ==
  /\ threads[t].pc = "assign"
  /\ common_movies' = CommonMovies(threads[t].user1_watchlist, threads[t].user2_watchlist)
  /\ threads' = [threads EXCEPT ![t].pc = "save"]
  /\ UNCHANGED << conc_unchanged, db >>

\* self.db.save_common_movies(username1, username2, self.common_movies)
ThreadSave(t) ==
  /\ threads[t].pc = "save"
  /\ \E fails \in BOOLEAN :
       LET out == SaveCommonMovies(db, threads[t].username1, threads[t].username2,
                                   common_movies, fails)
       IN /\ db' = out.db
          /\ threads' = IF out.raised
                        THEN [threads EXCEPT ![t].pc = "done", ![t].result = ErrorResult]
                        ELSE [threads EXCEPT ![t].pc = "movies"]
  /\ UNCHANGED << conc_unchanged, common_movies >>

\* 'common_movies': self.common_movies
ThreadReadMovies(t) ==
  /\ threads[t].pc = "movies"
  /\ threads' = [threads EXCEPT ![t].pc = "total", ![t].common_movies = common_movies]
  /\ UNCHANGED << conc_unchanged, common_movies, db >>

\* 'common_total': len(self.common_movies)
ThreadReadTotal(t) ==
  /\ threads[t].pc = "total"
  /\ threads' = [threads EXCEPT ![t].pc = "statistics",
                                 ![t].common_total = Len(common_movies)]
  /\ UNCHANGED << conc_unchanged, common_movies, db >>

\* 'statistics': self._calculate_statistics(...) and the return
ThreadStatistics(t) ==
  /\ threads[t].pc = "statistics"
  /\ LET th == threads[t]
     IN threads' = [threads EXCEPT
          ![t].pc = "done",
          ![t].result =
            [ status |-> "success",
              common_movies |-> th.common_movies,
              user1_total |-> Len(th.user1_watchlist),
              user2_total |-> Len(th.user2_watchlist),
              common_total |-> th.common_total,
              statistics |-> CalculateStatistics(common_movies, th.user1_watchlist,
                                                 th.user2_watchlist) ]]
  /\ UNCHANGED << conc_unchanged, common_movies, db >>

NextConc ==
  \/ \E t \in 1..Len(threads) : ThreadUpdateDatabase(t)
  \/ \E t \in 1..Len(threads) : ThreadAssign(t)
  \/ \E t \in 1..Len(threads) : ThreadSave(t)
  \/ \E t \in 1..Len(threads) : ThreadReadMovies(t)
  \/ \E t \in 1..Len(threads) : ThreadReadTotal(t)
  \/ \E t \in 1..Len(threads) : ThreadStatistics(t)

SpecConc == InitConc /\ [][NextConc]_vars

(* --------------------------- _parse_movie_page ------------------------- *)
\* _parse_movie_page on any document, the malformed ones included
ParsePageCalled ==
  /\ parsing = NoParsing
  /\ \E soup \in Documents(MaxLen) :
       parsing' = [state |-> "called", soup |-> soup, movies |-> <<>>]
  /\ UNCHANGED << call_vars, transport, threads, dbcalls >>

ParsePageReturns ==
  /\ parsing.state = "called"
  /\ parsing' = [parsing EXCEPT !.state = "returned",
                                !.movies = ParseMoviePage(parsing.soup)]
  /\ UNCHANGED << call_vars, transport, threads, dbcalls >>

ParseNext == ParsePageCalled \/ ParsePageReturns

SpecParse == Init /\ [][ParseNext]_vars

(* ----------------------- DatabaseManager, one caller ------------------ *)
\* the calls of one caller on the database, one after the other; dbcalls[1]
\* is the call it has just come back from
DbLists ==
  { <<>>,
    << MovieInfo("Arrival"), MovieInfo("Dune") >>,
    << MovieInfo("Dune"), MovieInfo("Dune") >> }

\* the scraper is idle: nothing of a compare_watchlists call is in progress
IdleScraper ==
  /\ pc = "idle"
  /\ username1 = "" /\ username2 = ""
  /\ progress_callback = FALSE
  /\ cur = 0
  /\ requests = <<>> /\ progress = <<>>
  /\ initial_page = NoPagination
  /\ last_page = 0 /\ page_num = 0
  /\ user_watchlist = <<>>
  /\ user1_watchlist = <<>> /\ user2_watchlist = <<>>
  /\ common_movies = <<>>
  /\ error_message = NoError
  /\ result = NoResult
  /\ transport = NoTransport
  /\ threads = NoThreads
  /\ parsing = NoParsing

InitDb ==
  /\ IdleScraper
  /\ db = EmptyDb
  /\ dbcalls = << [op |-> "none"] >>

db_unchanged ==
  << pc, username1, username2, progress_callback, cur, requests, progress,
     initial_page, last_page, page_num, user_watchlist, user1_watchlist,
     user2_watchlist, common_movies, error_message, result, transport,
     threads, parsing >>

\* user = get_user(username); if not user: add_user(username)
DbEnsureUser ==
  /\ \E username \in Usernames :
       /\ db' = EnsureUser(db, username)
       /\ dbcalls' = << [op |-> "add_user", username |-> username] >>
  /\ UNCHANGED db_unchanged

\* add_movie({'title': title})
DbAddMovie ==
  /\ \E title \in Titles :
       /\ db' = AddMovie(db, title)
       /\ dbcalls' = << [op |-> "add_movie", title |-> title] >>
  /\ UNCHANGED db_unchanged

\* save_common_movies(username1, username2, common_movies)
DbSaveCommonMovies ==
  /\ \E u1 \in Usernames, u2 \in Usernames, movies \in DbLists, fails \in BOOLEAN :
       LET out == SaveCommonMovies(db, u1, u2, movies, fails)
       IN /\ db' = out.db
          /\ dbcalls' = << [op |-> "save_common_movies", username1 |-> u1,
                            username2 |-> u2, movies |-> movies,
                            raised |-> out.raised, returned |-> out.returned] >>
  /\ UNCHANGED db_unchanged

DbNext == DbEnsureUser \/ DbAddMovie \/ DbSaveCommonMovies

SpecDb == InitDb /\ [][DbNext]_vars

(* ------------------- add_movie from two comparison threads ------------- *)
\* Each comparison thread reaches add_movie through add_user_movie, on a
\* connection of its own and with no transaction open: the SELECT and the
\* INSERT with its commit are two steps between which the other thread may
\* run.  The movies table has no UNIQUE constraint on title, so an INSERT
\* of a title that is already there succeeds.
NoDbCall == [op |-> "none", state |-> "idle"]

InitRace ==
  /\ IdleScraper
  /\ db = EmptyDb
  /\ dbcalls = << NoDbCall, NoDbCall >>

\* cur.execute("SELECT id, title FROM movies WHERE title = ?"); fetchone()
AddMovieSelect(t) ==
  /\ dbcalls[t].state \in { "idle", "returned" }
  /\ \E title \in Titles :
       dbcalls' = [dbcalls EXCEPT ![t] =
                     [op |-> "add_movie", state |-> "selected", title |-> title,
                      movie |-> IndexOf(db.movies, title), id |-> 0]]
  /\ UNCHANGED << db, db_unchanged >>

\* `if not movie:` INSERT, lastrowid, commit; else the id of the row found
AddMovieReturn(t) ==
  /\ dbcalls[t].state = "selected"
  /\ IF dbcalls[t].movie = 0
     THEN /\ db' = [db EXCEPT !.movies = Append(@, dbcalls[t].title)]
          /\ dbcalls' = [dbcalls EXCEPT ![t].state = "returned",
                                        ![t].id = Len(db.movies) + 1]
     ELSE /\ UNCHANGED db
          /\ dbcalls' = [dbcalls EXCEPT ![t].state = "returned",
                                        ![t].id = dbcalls[t].movie]
  /\ UNCHANGED db_unchanged

RaceNext ==
  \/ \E t \in 1..Len(dbcalls) : AddMovieSelect(t)
  \/ \E t \in 1..Len(dbcalls) : AddMovieReturn(t)

SpecRace == InitRace /\ [][RaceNext]_vars

(* ============================= properties ============================== *)
Succeeded == pc = "done" /\ result.status = "success"

TitlesOf(s) == { t \in Titles : \E i \in 1..Len(s) : s[i].title = t }

\* C1: the common_movies of a successful comparison are the entries of the
\* first watchlist whose title also occurs in the second one, every such
\* entry and no other, in the first watchlist's order.
C1_CommonMoviesIsOrderedSubsequence ==
  Succeeded =>
    LET A == user1_watchlist
        B == user2_watchlist
        c == result.common_movies
        shared == { i \in 1..Len(A) : \E j \in 1..Len(B) : B[j].title = A[i].title }
    IN /\ A # <<>> /\ B # <<>>
       /\ \A k \in 1..Len(c) :
            /\ \E i \in 1..Len(A) : A[i].title = c[k].title
            /\ \E j \in 1..Len(B) : B[j].title = c[k].title
       /\ \E f \in [1..Len(c) -> 1..Len(A)] :
            /\ \A k \in 1..Len(c) : c[k] = A[f[k]]
            /\ \A k, l \in 1..Len(c) : k < l => f[k] < f[l]
            /\ { f[k] : k \in 1..Len(c) } = shared

\* a success in which the first list has an entry that is common and, before
\* it, one that is not
C1_Witness ==
  /\ Succeeded
  /\ Len(user1_watchlist) = 2
  /\ result.common_movies = << user1_watchlist[2] >>
  /\ user2_watchlist[1].title = user1_watchlist[2].title

\* C2: in a successful result, common_total is the length of the
\* common_movies carried by that result.
C2_CommonTotalIsLength ==
  Succeeded => result.common_total = Len(result.common_movies)

\* a success whose common_movies repeat a title
C2_Witness ==
  /\ Succeeded
  /\ Len(result.common_movies) = 2
  /\ result.common_movies[1].title = result.common_movies[2].title

\* C3: when both watchlists of a successful comparison are the same list A,
\* common_movies is A entry for entry and common_total is len(A).
C3_SelfComparisonIsFullOverlap ==
  (Succeeded /\ user1_watchlist = user2_watchlist) =>
    /\ result.common_movies = user1_watchlist
    /\ result.common_total = Len(user1_watchlist)

\* a user compared with themselves, the watchlist repeating a title
C3_Witness ==
  /\ Succeeded
  /\ username1 = username2
  /\ user1_watchlist = user2_watchlist
  /\ Len(user1_watchlist) = 2
  /\ user1_watchlist[1].title = user1_watchlist[2].title
  /\ result.common_total = 2

\* C4: in a successful result, overlap_percentage is
\* common_total / min(user1_total, user2_total) * 100 on the result's own fields.
C4_OverlapPercentage ==
  Succeeded =>
    LET m == IF result.user1_total < result.user2_total
             THEN result.user1_total ELSE result.user2_total
        p == result.statistics.overlap_percentage
    IN /\ m > 0
       /\ p.den > 0
       /\ p.num * m = p.den * 100 * result.common_total

\* a success with lists of different length, the first one longer, and a
\* partial overlap of it
C4_Witness ==
  /\ Succeeded
  /\ result.user1_total > result.user2_total
  /\ result.common_total = 1
  /\ result.statistics.overlap_percentage = [num |-> 100, den |-> 1]

\* C5: in a successful result, total_unique_movies is the number of distinct
\* titles occurring in either watchlist.
C5_TotalUniqueMovies ==
  Succeeded =>
    result.statistics.total_unique_movies =
      Cardinality(TitlesOf(user1_watchlist) \cup TitlesOf(user2_watchlist))

\* a success where a title repeats within a list and across the lists
C5_Witness ==
  /\ Succeeded
  /\ Len(user1_watchlist) = 2 /\ Len(user2_watchlist) = 2
  /\ user1_watchlist[1].title = user1_watchlist[2].title
  /\ user2_watchlist[1].title = user1_watchlist[1].title
  /\ user2_watchlist[2].title # user1_watchlist[1].title
  /\ result.statistics.total_unique_movies = 2

\* the get_user_watchlist call in progress has left its page loop normally
PagesDone == pc \in { "loop", "update_db" } /\ page_num = last_page

\* the list the get_user_watchlist call in progress handed back
Returned == IF cur = 1 THEN user1_watchlist ELSE user2_watchlist

GotOk(response) == ~response.raised /\ response.status_code = 200

\* C6: compare_watchlists always returns; when a retrieval failed (profile
\* missing, a fetch failed, nothing extracted) the result is the error
\* result with reason user_not_found and no movies, and nothing was
\* intersected or saved; in every other case the result is the success result.
C6_ErrorExactlyWhenRetrievalFails ==
  pc = "done" =>
    IF error_message # NoError /\ error_message.cause # "database error"
    THEN /\ result = ErrorResult
         /\ common_movies = <<>>
         /\ db.common_movies = <<>>
    ELSE result.status = "success"

\* C7: a retrieval whose requests all succeeded and that extracted no movie
\* fails with "No movies found", writes nothing to the database and ends the
\* comparison with the error result; no success carries an empty watchlist.
C7_EmptyWatchlistIsFailure ==
  /\ [](Succeeded => (user1_watchlist # <<>> /\ user2_watchlist # <<>>))
  /\ [][ (PagesDone /\ pc = "loop" /\ user_watchlist = <<>>) =>
           /\ error_message' = [username |-> CurUser, cause |-> "No movies found for user"]
           /\ Returned' = <<>>
           /\ db' = db
           /\ pc' = "done"
           /\ result' = ErrorResult ]_vars

\* the second user's pages were all fetched, no poster had a title, and the
\* comparison ended in error
C7_Witness ==
  /\ pc = "done"
  /\ cur = 2
  /\ Len(requests) = 4
  /\ \A i \in 1..Len(requests) : GotOk(requests[i].response)
  /\ error_message = [username |-> username2, cause |-> "No movies found for user"]
  /\ user1_watchlist # <<>>
  /\ result = ErrorResult

\* C8: the requests of one retrieval start with exactly one profile GET; when
\* that GET does not come back with status 200 it stays the only request and
\* the retrieval fails.
C8_ProfileGate ==
  /\ pc \in { "initial", "paginate", "loop", "fetch", "update_db" } => requests # <<>>
  /\ requests # <<>> =>
       /\ requests[1].kind = "profile"
       /\ requests[1].username = CurUser
       /\ \A i \in 2..Len(requests) :
            /\ requests[i].kind # "profile"
            /\ requests[i].username = CurUser
       /\ ~GotOk(requests[1].response) =>
            /\ Len(requests) = 1
            /\ pc = "done"
            /\ Returned = <<>>
            /\ result = ErrorResult

\* the second user's profile answers 404: the retrieval stops there
C8_Witness ==
  /\ pc = "done"
  /\ cur = 2
  /\ Len(requests) = 1
  /\ requests[1].response.status_code = 404
  /\ result = ErrorResult

\* a label that is an integer: one or more decimal digits
IsIntegerLabel(label) ==
  Len(label) > 0 /\ \A i \in 1..Len(label) : label[i] \in DecimalChars

\* the last page the specification asks for
ClaimedLastPage(page) ==
  LET ints == { IntOf(page.links[i]) :
                  i \in { j \in 1..Len(page.links) : IsIntegerLabel(page.links[j]) } }
  IN IF ~page.present \/ ints = {} THEN 1 ELSE SetMax(ints)

\* C9: once the first page is fetched, the retrieval goes on with last_page
\* the largest integer among the pagination links' labels, and with 1 when
\* there is no pagination control or no label is an integer.
C9_LastPageIsMaxIntegerLabel ==
  [][ pc = "paginate" =>
        /\ pc' = "loop"
        /\ last_page' = ClaimedLastPage(initial_page) ]_vars

\* C10: with a callback, a retrieval whose N page fetches all succeeded has
\* made exactly N reports for its username, the k-th being k/N*100; the
\* reports are strictly increasing, in (0, 100], and the N-th is 100.
C10_ProgressReports ==
  /\ \A k \in 1..Len(progress) :
       /\ progress[k].username = CurUser
       /\ progress[k].percent.den > 0
       /\ progress[k].percent.num > 0
       /\ progress[k].percent.num <= 100 * progress[k].percent.den
       /\ k > 1 => RatLess(progress[k - 1].percent, progress[k].percent)
  /\ (progress_callback /\ PagesDone) =>
       /\ Len(progress) = last_page
       /\ \A k \in 1..Len(progress) :
            progress[k].percent.num * last_page = 100 * k * progress[k].percent.den
       /\ last_page >= 1 => progress[last_page].percent = [num |-> 100, den |-> 1]

\* two pages fetched, two reports made
C10_Witness ==
  /\ progress_callback
  /\ pc = "update_db"
  /\ last_page = 2
  /\ Len(progress) = 2
  /\ progress[1].percent = [num |-> 50, den |-> 1]

\* page numbers the retrieval in progress has fetched with status 200
FetchedPages ==
  { requests[i].page : i \in { j \in 1..Len(requests) :
                                  requests[j].kind = "page" /\ GotOk(requests[j].response) } }

\* C11: the k-th progress report of a retrieval is made only after page k was
\* fetched (and its movies appended); a report of 100 is made only after the
\* last page was fetched successfully.
C11_ProgressFollowsFetch ==
  \A k \in 1..Len(progress) :
    /\ k \in FetchedPages
    /\ progress[k].percent = [num |-> 100, den |-> 1] =>
         \A n \in 1..k : n \in FetchedPages

\* every attempt of the request in flight was answered 503
All503 ==
  /\ transport # NoTransport
  /\ \A i \in 1..Len(transport.attempts) :
       transport.attempts[i] = [error |-> FALSE, status_code |-> 503]

\* C12 as stated: a request answered 503 every time is attempted exactly
\* three times, never a fourth, and then given up.
C12_ThreeAttemptsOn503 ==
  All503 =>
    /\ Len(transport.attempts) <= 3
    /\ transport.state = "raised" => Len(transport.attempts) = 3

\* C12 amended: a request answered 503 every time is attempted exactly
\* 1 + total = 4 times (the first attempt and three retries), never a fifth,
\* and is given up with the retry budget exhausted right after the fourth.
C12_FourAttemptsOn503 ==
  All503 =>
    /\ Len(transport.attempts) <= RetryTotal + 1
    /\ Len(transport.attempts) <= RetryTotal => transport.state = "sending"
    /\ Len(transport.attempts) = RetryTotal + 1 => transport.state = "raised"
    /\ transport.total = RetryTotal - Len(transport.attempts)

\* four 503 answers, the request given up
C12_Witness ==
  /\ All503
  /\ transport.state = "raised"
  /\ Len(transport.attempts) = 4

\* both retrievals fetched and parsed a non-empty watchlist: the call is at
\* its end and nothing but persistence has failed in it
ScrapedBoth ==
  /\ pc = "done"
  /\ cur = 2
  /\ user1_watchlist # <<>>
  /\ error_message = NoError \/ error_message.cause = "database error"

\* C13: when both watchlists were scraped successfully, compare_watchlists
\* returns the success result whatever the persistence calls did.
C13_PersistenceFailureStillSucceeds ==
  ScrapedBoth => Succeeded

\* C14: under every interleaving of two comparisons on one instance, a
\* thread that returns a success result returns the common movies, the
\* common total and the statistics of its own pair of watchlists.
C14_EachThreadItsOwnResult ==
  \A t \in 1..Len(threads) :
    threads[t].pc = "done" /\ threads[t].result.status = "success" =>
      threads[t].result =
        SuccessResult(CommonMovies(threads[t].user1_watchlist, threads[t].user2_watchlist),
                      threads[t].user1_watchlist, threads[t].user2_watchlist)

\* C15: a comparison that ends with status error has written nothing: the
\* database is as it was when compare_watchlists was called.
C15_ErrorLeavesDatabaseUnchanged ==
  pc = "done" /\ result.status = "error" => db = EmptyDb

\* the movies the requests of s brought in, in request order
RECURSIVE MoviesOf(_)
MoviesOf(s) == IF s = <<>> THEN <<>> ELSE Head(s).movies \o MoviesOf(Tail(s))

\* C16: the requests of a retrieval are the profile, the first watchlist
\* page, then page/1/, page/2/, ... one at a time in increasing order, each
\* once; the list built is the concatenation of what the page/k/ requests
\* yielded (the first-page fetch adds nothing), and the list handed back is
\* that of all pages 1..last_page.
C16_WatchlistIsConcatenationOfPages ==
  /\ \A i \in 1..Len(requests) :
       /\ i = 1 => requests[i].kind = "profile" /\ requests[i].movies = <<>>
       /\ i = 2 => requests[i].kind = "watchlist" /\ requests[i].movies = <<>>
       /\ i > 2 => requests[i].kind = "page" /\ requests[i].page = i - 2
  /\ pc \in { "loop", "fetch", "update_db" } =>
       /\ Len(requests) = page_num + 2
       /\ user_watchlist = MoviesOf(requests)
  /\ pc = "update_db" => page_num = last_page

\* a list of two movies came in over two pages, one movie each
C16_Witness ==
  /\ pc = "update_db"
  /\ last_page = 2
  /\ Len(requests[3].movies) = 1
  /\ Len(requests[4].movies) = 1
  /\ user_watchlist = requests[3].movies \o requests[4].movies

\* C17: when the fetch of a page fails, that request is the last one of the
\* call: no later page is requested and no second retrieval is started, the
\* call is over with the error result, the movies of the earlier pages are
\* not handed back, the error message names the user being retrieved, and
\* the database holds nothing of that retrieval (nothing at all when it was
\* the first, the first user's update alone when it was the second).
C17_FailedFetchStopsRetrieval ==
  \A i \in 1..Len(requests) :
    requests[i].kind = "page" /\ ~GotOk(requests[i].response) =>
      /\ i = Len(requests)
      /\ pc = "done"
      /\ result = ErrorResult
      /\ Returned = <<>>
      /\ user_watchlist = <<>>
      /\ cur = 1 => user2_watchlist = <<>>
      /\ error_message.username = requests[i].username
      /\ error_message.username = CurUser
      /\ db = IF cur = 1 THEN EmptyDb
              ELSE UpdateDatabase(EmptyDb, username1, username2, user1_watchlist, 0).db

\* page/2/ failed after page/1/ had yielded a movie
C17_Witness ==
  /\ pc = "done"
  /\ Len(requests) = 4
  /\ requests[3].movies # <<>>
  /\ requests[4].kind = "page"
  /\ ~GotOk(requests[4].response)

\* the title a poster yields: data-film-name when non-empty, else the alt
\* text of its image; "" when it yields none
UsableTitle(poster) ==
  IF poster.film_name # "" THEN poster.film_name ELSE poster.alt

\* movies holds, in document order, exactly one record for each of the
\* elements at the positions `at` that yield a usable title
OneRecordEach(movies, elements, at) ==
  LET usable == { i \in at : UsableTitle(elements[i].poster) # "" }
  IN /\ Len(movies) = Cardinality(usable)
     /\ \E f \in [1..Len(movies) -> usable] :
          /\ \A j \in 1..Len(movies), k \in 1..Len(movies) : j < k => f[j] < f[k]
          /\ \A k \in 1..Len(movies) :
               movies[k] = MovieInfo(UsableTitle(elements[f[k]].poster))

Visited(soup) ==
  { i \in 1..Len(soup.elements) :
      soup.grid = "none" \/ soup.elements[i].place = "item" }

C19_SameTitlesUnderEveryLayout ==
  parsing.state = "returned" =>
    /\ \A g \in GridMarkers :
         ParseMoviePage([parsing.soup EXCEPT !.grid = g]) = parsing.movies
    /\ parsing.movies = <<>> =>
         \A i \in 1..Len(parsing.soup.elements) :
           UsableTitle(parsing.soup.elements[i].poster) = ""

\* C20: in every success result the common total is at most the smaller of
\* the two watchlist totals, and the overlap percentage is at most 100.
C20_OverlapAtMostHundred ==
  Succeeded =>
    /\ result.common_total <= Min(result.user1_total, result.user2_total)
    /\ ~RatLess(Rat(100, 1), result.statistics.overlap_percentage)

\* what compare_watchlists returns for lists a and b when nothing fails
Compare(a, b) == SuccessResult(CommonMovies(a, b), a, b)

\* C21: the titles among the common movies of a successful comparison, and
\* its total_unique_movies, are those of the comparison with the two
\* watchlists exchanged.
C21_TitleSetIsSymmetric ==
  Succeeded =>
    LET swapped == Compare(user2_watchlist, user1_watchlist)
    IN /\ TitleSet(result.common_movies) = TitleSet(swapped.common_movies)
       /\ result.statistics.total_unique_movies = swapped.statistics.total_unique_movies

\* the two orders share titles but give different lists
C21_Witness ==
  /\ Succeeded
  /\ user1_watchlist # user2_watchlist
  /\ result.common_movies # <<>>
  /\ result.common_movies # Compare(user2_watchlist, user1_watchlist).common_movies

\* the common_movies rows of the pair of ids, in either order
PairRows(rows, id1, id2) ==
  SelectSeq(rows, LAMBDA r : \/ (r.user1_id = id1 /\ r.user2_id = id2)
                            \/ (r.user1_id = id2 /\ r.user2_id = id1))

\* C22: a save_common_movies(u1, u2, L) that returns True leaves, for the
\* pair in either order, exactly one row per entry of L, in the order of L
\* and under (u1, u2), so that saving L again changes nothing; with either
\* user unknown it returns False and leaves the common_movies table as it was.
C22_SaveReplacesThePairsRows ==
  [][ LET call == dbcalls'[1]
          id1 == GetUser(db', call.username1)
          id2 == GetUser(db', call.username2)
          rows == PairRows(db'.common_movies, id1, id2)
      IN call.op = "save_common_movies" =>
           /\ call.returned =>
                /\ id1 # 0 /\ id2 # 0
                /\ Len(rows) = Len(call.movies)
                /\ \A i \in 1..Len(rows) :
                     /\ rows[i].user1_id = id1 /\ rows[i].user2_id = id2
                     /\ rows[i].movie_name = call.movies[i].title
                     /\ db'.movies[rows[i].movie_id] = call.movies[i].title
                /\ SaveCommonMovies(db', call.username1, call.username2,
                                    call.movies, FALSE).db = db'
           /\ GetUser(db, call.username1) = 0 \/ GetUser(db, call.username2) = 0 =>
                /\ ~call.returned
                /\ db'.common_movies = db.common_movies
    ]_vars

\* a save for (bob, alice) has returned True over rows of other pairs
C22_Witness ==
  LET call == dbcalls[1]
  IN /\ dbcalls # NoDbCalls
     /\ call.op = "save_common_movies"
     /\ call.returned
     /\ call.username1 # call.username2
     /\ Len(call.movies) = 2
     /\ Len(db.common_movies) > 2

\* C23: whatever the interleaving of the two threads' add_movie calls, the
\* movies table holds at most one row per title and two calls for the same
\* title return the same id.
C23_OneRowPerTitle ==
  /\ \A i \in 1..Len(db.movies), j \in 1..Len(db.movies) :
       db.movies[i] = db.movies[j] => i = j
  /\ \A s \in 1..Len(dbcalls), t \in 1..Len(dbcalls) :
       /\ dbcalls[s].state = "returned"
       /\ dbcalls[t].state = "returned"
       /\ dbcalls[s].title = dbcalls[t].title
       => dbcalls[s].id = dbcalls[t].id

====
